---- MODULE Spec2Model ----
(***************************************************************************)
(* The upload pipeline of the archiving front end, as a state machine.     *)
(*                                                                         *)
(* Three versions of the upload page are in the repository:                *)
(*   "basic"      app/(dashboard)/upload/page.tsx: one POST /archive,      *)
(*                the form refuses files above 25 MiB;                     *)
(*   "concurrent" unnamed/part_000: single-shot or multipart, the part     *)
(*                PUTs are started in a loop and awaited by Promise.all;   *)
(*   "folder"     app/(dashboard)/dashboard/page.tsx (UploadPage, from     *)
(*                line 255): the selection is zipped in the browser, then  *)
(*                single-shot or multipart with one part at a time.        *)
(* A behaviour is one mount of one page: the submit button takes a submit  *)
(* whenever no run is under way, so run follows run; the file field can be *)
(* set anew at any time, tags and policy between runs; a run works on the  *)
(* values read at its submit.                                              *)
(* requests and toasts are the logs of the page since it was mounted;      *)
(* runBase marks where the current run begins in them.  The PUTs of the    *)
(* concurrent page are not awaited one by one: those a run leaves          *)
(* unanswered are still in flight when the next run begins (detached).     *)
(* The back end and the object store are not in the repository: each of    *)
(* their responses is a nondeterministic choice between success and        *)
(* failure.                                                                *)
(*                                                                         *)
(* AuthSpec is the authentication context with the routes of the app and   *)
(* the two versions of DashboardLayout (unnamed/part_001, part_002): a     *)
(* render, the effects it leaves pending and the commit of a navigation    *)
(* are steps of their own; of the toasts of those pages it keeps whether   *)
(* 'Session Expired' has been shown.  SessionSpec is the upload session    *)
(* manager.                                                                *)
(***************************************************************************)
EXTENDS Integers, Sequences, FiniteSets, TLC

\* ---------------------------------------------------------------- constants
SMALL_FILE_LIMIT == 25 * 1024 * 1024

MULTIPART_CHUNK_SIZE == 5 * 1024 * 1024

\* the size refinement of the basic page's form schema
BASIC_MAX_FILE_SIZE == 25 * 1024 * 1024

DEFAULT_POLICY == "standard-7"

\* ------------------------------------------------------------------- bounds
\* largest number of files in a selection of the folder page
MaxFiles == 2

\* largest number of submits taken by one mount of a page
MaxRuns == 2

\* a further submit is taken while the log holds at most this many requests
MaxEarlier == 4

\* largest part count of a zip blob of the folder page, whose parts go one
\* at a time
MaxParts == 7

\* smallest part count of a multipart payload: the first size above
\* SMALL_FILE_LIMIT needs six chunks
MinParts == (SMALL_FILE_LIMIT \div MULTIPART_CHUNK_SIZE) + 1

\* sizes of the selected file of the basic and of the concurrent page; the
\* concurrent page has all PUTs of a payload in flight at once and is run
\* with the smallest payload that goes in parts
InputSizes == {0, 1, SMALL_FILE_LIMIT, SMALL_FILE_LIMIT + 1}

\* sizes of the files of a selection of the folder page
ItemSizes == {0, 1}

\* names and relative paths, as sequences of characters
SLASH == "/"

NoPath == <<>>

\* the files a selection is drawn from: name, webkitRelativePath, size
FileItem(name, rel, size) == [name |-> name, rel |-> rel, size |-> size]

\* files of the folder page: picked or dropped files carry no relative path
\* (two dropped files may share a name), files of a picked folder carry one
FolderItems ==
    { FileItem(<<"1">>, NoPath, z) : z \in ItemSizes }
        \cup { FileItem(<<"1">>, <<"a", SLASH, "1">>, 1),
               FileItem(<<"2">>, <<"a", SLASH, "2">>, 1),
               FileItem(<<"2">>, <<"b", SLASH, "2">>, 1) }

\* the file of the basic and of the concurrent page
SingleItems == { FileItem(<<"1">>, NoPath, z) : z \in InputSizes }

\* sizes of the blob generateAsync produces: a zip is never empty
ZipSizes ==
    {1, SMALL_FILE_LIMIT, SMALL_FILE_LIMIT + 1}
        \cup {k * MULTIPART_CHUNK_SIZE : k \in MinParts..MaxParts}

Variants == {"basic", "concurrent", "folder"}

\* what a script can read of the store's ETag response header
HeaderModes == {"quoted", "absent", "emptyQuoted"}

\* the basic page makes no PUT; the concurrent page passes the header on as
\* it is, so that only its absence shows; the folder page strips the quotes
HeaderModesOf(v) ==
    CASE v = "basic" -> {"quoted"}
      [] v = "concurrent" -> {"quoted", "absent"}
      [] OTHER -> HeaderModes

UploadIds == {"u1"}

\* tags and policy as set in the form before the submit: both away from the
\* defaults, so that a reset of the form is visible
FormChoices ==
    { [tags |-> "finance", policy |-> "legal-hold-indefinite"] }

\* --------------------------------------------------------------- JS values
QUOTE == "\""

Undefined == [present |-> FALSE, value |-> <<>>]

Str(s) == [present |-> TRUE, value |-> s]

\* JavaScript truthiness of a string-or-undefined value
Truthy(v) == v.present /\ v.value # <<>>

PartChar == <<"1", "2", "3", "4", "5", "6", "7", "8", "9">>

\* the ETag header of the store's response to the PUT of part k
ResponseETag(mode, k) ==
    CASE mode = "quoted" -> Str(<<QUOTE, PartChar[k], QUOTE>>)
      [] mode = "emptyQuoted" -> Str(<<QUOTE, QUOTE>>)
      [] OTHER -> Undefined

\* s.replace(/"/g, "")
StripQuotes(s) == SelectSeq(s, LAMBDA c : c # QUOTE)

\* headers.get("ETag")?.replace(/"/g, "")
FetchETag(h) == IF h.present THEN Str(StripQuotes(h.value)) ELSE Undefined

\* uploadRes.headers["etag"]
AxiosETag(h) == h

Min(a, b) == IF a < b THEN a ELSE b

Max(a, b) == IF a > b THEN a ELSE b

\* mutant: Math.floor in place of Math.ceil
TotalParts_Floor(size) == size \div MULTIPART_CHUNK_SIZE

\* Math.ceil(size / MULTIPART_CHUNK_SIZE)
TotalParts(size) ==
    (size + MULTIPART_CHUNK_SIZE - 1) \div MULTIPART_CHUNK_SIZE

\* ------------------------------------------------- JS number arithmetic
\* the 53-bit significand of a double is kept as five limbs, most
\* significant first: one limb for the leading bit and four of 13 bits
LIMB_BITS == 13

LIMB == 2 ^ LIMB_BITS

FRACTION_LIMBS == 4

\* x * m + c, the carry absorbed by the first limb
RECURSIVE MulAdd(_, _, _)
MulAdd(x, m, c) ==
    IF Len(x) = 1 THEN <<x[1] * m + c>>
    ELSE LET v == x[Len(x)] * m + c
         IN  Append(MulAdd(SubSeq(x, 1, Len(x) - 1), m, v \div LIMB), v % LIMB)

\* the first n limbs of the fraction r / d, r < d
RECURSIVE Digits(_, _, _)
Digits(r, d, n) ==
    IF n = 0 THEN <<>>
    ELSE <<(r * LIMB) \div d>> \o Digits((r * LIMB) % d, d, n - 1)

\* what the long division leaves after n limbs
RECURSIVE Remainder(_, _, _)
Remainder(r, d, n) ==
    IF n = 0 THEN r ELSE Remainder((r * LIMB) % d, d, n - 1)

\* the z with b <= a * 2^z < 2 * b, for 0 < a <= b
RECURSIVE LeadingZeros(_, _)
LeadingZeros(a, b) == IF a >= b THEN 0 ELSE 1 + LeadingZeros(2 * a, b)

RECURSIVE BitLength(_)
BitLength(n) == IF n = 0 THEN 0 ELSE 1 + BitLength(n \div 2)

\* round to nearest, ties to even: is the kept part to be raised, given
\* what is cut off (rem out of unit) and the kept part's last digit
RoundsUp(rem, unit, last) ==
    2 * rem > unit \/ (2 * rem = unit /\ last % 2 = 1)

\* a / b in double precision, 0 < a <= b: the value is sig / 2^(52 + zeros)
DoubleDivide(a, b) ==
    LET z == LeadingZeros(a, b)
        n == a * 2 ^ z
        sig == <<n \div b>> \o Digits(n % b, b, FRACTION_LIMBS)
        rem == Remainder(n % b, b, FRACTION_LIMBS)
    IN  [sig |-> IF RoundsUp(rem, b, sig[Len(sig)])
                 THEN MulAdd(sig, 1, 1) ELSE sig,
         zeros |-> z]

\* x * m in double precision, m a whole number below LIMB: the product has
\* BitLength(first limb) - 1 bits too many, which are rounded off the last
DoubleTimes(x, m) ==
    LET p == MulAdd(x.sig, m, 0)
        unit == 2 ^ (BitLength(p[1]) - 1)
        last == p[Len(p)]
        rem == last % unit
        kept == last - rem
    IN  [sig |-> MulAdd([p EXCEPT ![Len(p)] = 0], 1,
                        IF RoundsUp(rem, unit, last \div unit)
                        THEN kept + unit ELSE kept),
         zeros |-> x.zeros]

\* Math.round(x) = floor(x + 0.5)
MathRound(x) ==
    IF x.zeros = 0
    THEN x.sig[1] + (IF 2 * x.sig[2] >= LIMB THEN 1 ELSE 0)
    ELSE (x.sig[1] \div 2 ^ x.zeros)
            + ((x.sig[1] \div 2 ^ (x.zeros - 1)) % 2)

\* Math.round((k / t) * 100), computed in doubles as the engine does, for
\* every part k of every part count t of the runs
ProgressTable ==
    [t \in 1..(MaxParts + 1) |->
        [k \in 1..t |-> MathRound(DoubleTimes(DoubleDivide(k, t), 100))]]

\* Math.round((partNumber / totalParts) * 100), looked up for the part counts
\* of the runs and computed for any other
ProgressOf(partNumber, total) ==
    IF total \in DOMAIN ProgressTable /\ partNumber \in 1..total
    THEN ProgressTable[total][partNumber]
    ELSE MathRound(DoubleTimes(DoubleDivide(partNumber, total), 100))

ChunkStart(i) == i * MULTIPART_CHUNK_SIZE

\* mutant: the end taken as the index of the chunk's last byte
ChunkEnd_LastByte(i) == (i + 1) * MULTIPART_CHUNK_SIZE - 1

ChunkEnd(i) == (i + 1) * MULTIPART_CHUNK_SIZE

\* Blob.slice(start, end) of a blob of the given size: both ends are clamped
Slice(size, start, end) ==
    [start |-> Min(start, size),
     end   |-> Max(Min(end, size), Min(start, size))]

\* ------------------------------------------------------------------- state
VARIABLES
    variant,        \* which page is mounted
    storeHeader,    \* the store's ETag header as visible to the page
    form,           \* react-hook-form values: files, tags, policy
    values,         \* the values form.handleSubmit read at the submit
    pc,             \* where onSubmit is suspended
    isUploading,    \* useState
    uploadProgress, \* useState
    toasts,         \* titles of the toasts shown, in order
    requests,       \* requests issued, in order
    payloadSize,    \* size of the File handed to the upload handlers
    uploadId,       \* handleLargeFileUpload local
    totalParts,     \* handleLargeFileUpload local
    loopIndex,      \* handleLargeFileUpload loop variable i
    uploadedParts,  \* handleLargeFileUpload local
    puts,           \* part number -> state of its PUT, once a session is open
    zipName,        \* name of the zip File built by the folder page
    zipEntries,     \* entries of the JSZip object, in order
    outcome,        \* how the onSubmit run ended
    runs,           \* submits taken since the page was mounted
    runBase,        \* lengths of requests and toasts at the last submit
    detached        \* PUTs of earlier runs that are still unanswered

uploadVars ==
    <<variant, storeHeader, form, values, pc, isUploading, uploadProgress,
      toasts, requests, payloadSize, uploadId, totalParts, loopIndex,
      uploadedParts, puts, zipName, zipEntries, outcome, runs, runBase,
      detached>>

\* the authentication context and the private-route layout
VARIABLES
    layout,         \* which DashboardLayout is built in
    user,           \* AuthProvider state: the user, or null
    isLoading,      \* AuthProvider state
    localUser,      \* the 'user' entry of localStorage
    route,          \* the route the router was last sent to
    page,           \* the route whose page is mounted
    rendered,       \* what DashboardLayout returned at its last render
    effects,        \* components with an effect scheduled and not yet run
    logouts,        \* logout() calls waiting for POST /auth/logout
    fetches,        \* page -> what the mounted page shows of its fetch
    live,           \* page -> its fetches unanswered, the page still mounted
    stale,          \* page -> its fetches unanswered after it was unmounted
    sessionExpired, \* a 'Session Expired' toast has come up since the load
    calls,          \* POSTs of the login and register forms still unanswered
    busy            \* isLoading of the login or register page that is mounted

authVars ==
    <<layout, user, isLoading, localUser, route, page, rendered, effects,
      logouts, fetches, live, stale, sessionExpired, calls, busy>>

\* the forms of the login and of the register page
signVars == <<calls, busy>>

\* the upload sessions as the session manager keeps them
VARIABLES
    session,        \* per id: state, parts held by the store, Abort calls
    result          \* result of the last call on the session

sessionVars == <<session, result>>

vars == <<uploadVars, authVars, sessionVars>>

\* what only a submit changes
runVars == <<runs, runBase, detached>>

NoParts == <<>>

Request(ep, id, k, range, parts, size) ==
    [ep |-> ep, uploadId |-> id, partNumber |-> k,
     start |-> range.start, end |-> range.end,
     parts |-> parts, fileSize |-> size]

NoRange == [start |-> 0, end |-> 0]

\* file.name of the File handed to the upload handlers: the submitted file,
\* or on the folder page the zip built from the submitted selection
FileName(vals) == IF variant = "folder" THEN zipName ELSE vals.files[1].name

\* tags || "" and policy, as read from the submitted values
TagsAndPolicy(vals) == [tags |-> vals.tags, policy |-> vals.policy]

NamedFile(vals) == [filename |-> FileName(vals)]

\* api.post("/archive", formData) with file, tags and policy appended
ArchiveRequest(vals, size) ==
    Request("archive", "", 0, NoRange, NoParts, size)
        @@ NamedFile(vals) @@ TagsAndPolicy(vals)

\* api.post("/archive/start-upload", {filename})
StartUploadRequest(vals) ==
    Request("start-upload", "", 0, NoRange, NoParts, 0) @@ NamedFile(vals)

\* api.post("/archive/get-upload-part-url", {filename, uploadId, partNumber})
PartUrlRequest(id, k) ==
    Request("get-upload-part-url", id, k, NoRange, NoParts, 0)
        @@ NamedFile(values)

\* mutant: the URL is fetched once, for part 1, and used for every chunk
PresignedUrl_FirstPart(req) == [uploadId |-> req.uploadId, partNumber |-> 1]

\* partUrlRes.data.url: the URL the backend signs for the uploadId and the
\* partNumber of the request it answers
PresignedUrl(req) == [uploadId |-> req.uploadId, partNumber |-> req.partNumber]

\* the PUT of chunk i (0-based), in the same pass of the loop, to the URL in
\* the answer to that pass's get-upload-part-url request (the last request
\* issued)
PutRequest(id, i) ==
    Request("PUT", id, i + 1,
            Slice(payloadSize, ChunkStart(i), ChunkEnd(i)), NoParts, 0)
        @@ [url |-> PresignedUrl(requests[Len(requests)])]

\* api.post("/archive/complete-upload", {..., uploadId, parts, fileSize})
CompleteUploadRequest(id, parts) ==
    Request("complete-upload", id, 0, NoRange, parts, payloadSize)
        @@ NamedFile(values) @@ TagsAndPolicy(values)

\* ------------------------------------------------------------------- forms
\* a selection lists no relative path twice; files without one may share
\* a name (dropped from different folders)
FileSeqs(items, maxLen) ==
    { fs \in UNION { [1..n -> items] : n \in 0..maxLen } :
        \A i, j \in DOMAIN fs :
            (i # j /\ fs[i].rel # <<>>) => fs[i].rel # fs[j].rel }

FormsOf(v) ==
    { [files |-> fs, tags |-> c.tags, policy |-> c.policy] :
        fs \in (IF v = "folder" THEN FileSeqs(FolderItems, MaxFiles)
                                ELSE FileSeqs(SingleItems, 1)),
        c \in FormChoices }

\* ---------------------------------------------------------------- packaging
DEFAULT_FOLDER_NAME == <<"archive">>

ZIP_SUFFIX == <<".zip">>

\* s.split('/')[0]
RECURSIVE FirstSegment(_)
FirstSegment(s) ==
    IF s = <<>> \/ Head(s) = SLASH THEN <<>>
    ELSE <<Head(s)>> \o FirstSegment(Tail(s))

\* let folderName = "archive"; if (files[0].webkitRelativePath) folderName =
\* files[0].webkitRelativePath.split('/')[0]
FolderName(fs) ==
    IF fs[1].rel # <<>> THEN FirstSegment(fs[1].rel) ELSE DEFAULT_FOLDER_NAME

\* file.webkitRelativePath || file.name
ZipPath(f) == IF f.rel # <<>> THEN f.rel ELSE f.name

\* zip.file(path, file): a path already in the zip gets the new content
ZipFile(entries, path, i) ==
    IF \E n \in 1..Len(entries) : entries[n].path = path
    THEN [n \in 1..Len(entries) |->
            IF entries[n].path = path THEN [path |-> path, item |-> i]
            ELSE entries[n]]
    ELSE Append(entries, [path |-> path, item |-> i])

\* for (i = 0; i < files.length; i++) zip.file(path, files[i])
RECURSIVE ZipLoop(_, _, _)
ZipLoop(fs, i, entries) ==
    IF i > Len(fs) THEN entries
    ELSE ZipLoop(fs, i + 1, ZipFile(entries, ZipPath(fs[i]), i))

\* z.instanceof(File).refine(size > 0) [.refine(size <= 25 MiB)]
FileValid(v, fs) ==
    /\ Len(fs) = 1
    /\ fs[1].size > 0
    /\ (v = "basic" => fs[1].size <= BASIC_MAX_FILE_SIZE)

\* z.instanceof(FileList).refine(files.length > 0)
FilesValid(fs) == Len(fs) > 0

formSchema(v, f) ==
    /\ f.policy # ""
    /\ IF v = "folder" THEN FilesValid(f.files) ELSE FileValid(v, f.files)

\* form.reset(); form.setValue("policy", "standard-7")
FormReset == [files |-> <<>>, tags |-> "", policy |-> DEFAULT_POLICY]

\* handleSubmit has not run yet
NoValues == [files |-> <<>>, tags |-> "", policy |-> ""]

NoRun == [requests |-> 0, toasts |-> 0]

\* the upload page is open under a signed-in user and nothing of the
\* authentication context moves
AuthAtRest ==
    /\ layout = "effect"
    /\ user = "alice"
    /\ isLoading = FALSE
    /\ localUser = "user"
    /\ route = "/upload"
    /\ page = "/upload"
    /\ rendered = "children"
    /\ effects = {}
    /\ logouts = 0
    /\ fetches = [f \in {"/dashboard", "/search", "/settings"} |-> "idle"]
    /\ live = [f \in {"/dashboard", "/search", "/settings"} |-> 0]
    /\ stale = [f \in {"/dashboard", "/search", "/settings"} |-> 0]
    /\ sessionExpired = FALSE
    /\ calls = {}
    /\ busy = FALSE

SessionIds == {"s1", "s2"}

NoSession == [state |-> "None", parts |-> {}, aborts |-> 0]

\* no upload session is being managed
SessionAtRest ==
    /\ session = [id \in SessionIds |-> NoSession]
    /\ result = ""

Init ==
    /\ variant \in Variants
    /\ storeHeader \in HeaderModesOf(variant)
    /\ form \in FormsOf(variant)
    /\ values = NoValues
    /\ pc = "idle"
    /\ isUploading = FALSE
    /\ uploadProgress = 0
    /\ toasts = <<>>
    /\ requests = <<>>
    /\ payloadSize = 0
    /\ uploadId = ""
    /\ totalParts = 0
    /\ loopIndex = 0
    /\ uploadedParts = <<>>
    /\ puts = <<>>
    /\ zipName = <<>>
    /\ zipEntries = <<>>
    /\ outcome = "none"
    /\ runs = 0
    /\ runBase = NoRun
    /\ detached = {}
    /\ AuthAtRest
    /\ SessionAtRest

\* ------------------------------------------------------- ends of onSubmit
flowVars == <<payloadSize, uploadId, totalParts, loopIndex, uploadedParts, puts>>

\* success toast, form.reset(), policy back to the default, then the tail of
\* onSubmit: setIsUploading(false); setUploadProgress(0)
Succeed ==
    /\ toasts' = Append(toasts, "Upload Successful")
    /\ form' = FormReset
    /\ isUploading' = FALSE
    /\ uploadProgress' = 0
    /\ outcome' = "success"
    /\ pc' = "idle"

\* mutant: the form is reset in a finally block, whatever the outcome
Fail_ResetsForm ==
    /\ toasts' = Append(toasts, "Upload Failed")
    /\ form' = FormReset
    /\ isUploading' = FALSE
    /\ uploadProgress' = 0
    /\ outcome' = "failed"
    /\ pc' = "idle"

\* destructive toast, then the tail of onSubmit
Fail ==
    /\ toasts' = Append(toasts, "Upload Failed")
    /\ isUploading' = FALSE
    /\ uploadProgress' = 0
    /\ outcome' = "failed"
    /\ pc' = "idle"
    /\ UNCHANGED form

\* mutant: the limit itself is sent to the multipart path
Dispatch_LimitExcluded(vals, size, shown) ==
    IF size < SMALL_FILE_LIMIT
    THEN /\ requests' = Append(requests, ArchiveRequest(vals, size))
         /\ toasts' = (IF variant = "folder"
                       THEN Append(shown, "Uploading Zip File...")
                       ELSE shown)
         /\ pc' = "archive"
    ELSE /\ requests' = Append(requests, StartUploadRequest(vals))
         /\ toasts' = shown
         /\ pc' = "start-upload"

\* the branch of onSubmit on the size of the file to upload
Dispatch(vals, size, shown) ==
    IF size <= SMALL_FILE_LIMIT
    THEN /\ requests' = Append(requests, ArchiveRequest(vals, size))
         /\ toasts' = (IF variant = "folder"
                       THEN Append(shown, "Uploading Zip File...")
                       ELSE shown)
         /\ pc' = "archive"
    ELSE /\ requests' = Append(requests, StartUploadRequest(vals))
         /\ toasts' = shown
         /\ pc' = "start-upload"

\* ---------------------------------------------------------------- onSubmit
InFlightPuts == {k \in DOMAIN puts : puts[k] = "inflight"}

\* form.handleSubmit(onSubmit) is called: it reads the values of the form.
\* What the run before has left in its locals is out of reach from now on,
\* and its PUTs still unanswered stay in flight
handleSubmit ==
    /\ runs < MaxRuns
    /\ Len(requests) <= MaxEarlier
    /\ values' = form
    /\ runs' = runs + 1
    /\ runBase' = [requests |-> Len(requests), toasts |-> Len(toasts)]
    /\ detached' =
          detached \cup
              { [run |-> runs, partNumber |-> k, totalParts |-> totalParts] :
                    k \in InFlightPuts }
    /\ uploadId' = ""
    /\ totalParts' = 0
    /\ loopIndex' = 0
    /\ uploadedParts' = <<>>
    /\ puts' = <<>>

\* form.handleSubmit(onSubmit) with a selection the schema refuses: onSubmit
\* is not called and the field shows its message
SubmitInvalid ==
    /\ ~isUploading
    /\ ~formSchema(variant, form)
    /\ handleSubmit
    /\ payloadSize' = 0
    /\ zipName' = <<>>
    /\ zipEntries' = <<>>
    /\ outcome' = "rejected"
    /\ UNCHANGED <<variant, storeHeader, form, pc, isUploading,
                   uploadProgress, toasts, requests>>
    /\ UNCHANGED <<authVars, sessionVars>>

\* onSubmit of the basic page: one POST /archive
SubmitBasic ==
    /\ variant = "basic"
    /\ ~isUploading
    /\ formSchema(variant, form)
    /\ handleSubmit
    /\ isUploading' = TRUE
    /\ payloadSize' = form.files[1].size
    /\ requests' = Append(requests, ArchiveRequest(form, form.files[1].size))
    /\ pc' = "archive"
    /\ outcome' = "none"
    /\ UNCHANGED <<variant, storeHeader, zipName, zipEntries, form,
                   uploadProgress, toasts>>
    /\ UNCHANGED <<authVars, sessionVars>>

\* mutant: the submit button is not disabled while an upload runs
SubmitConcurrent_NotDisabled ==
    /\ variant = "concurrent"
    /\ formSchema(variant, form)
    /\ handleSubmit
    /\ isUploading' = TRUE
    /\ uploadProgress' = 0
    /\ payloadSize' = form.files[1].size
    /\ Dispatch(form, form.files[1].size, toasts)
    /\ outcome' = "none"
    /\ UNCHANGED <<variant, storeHeader, zipName, zipEntries, form>>
    /\ UNCHANGED <<authVars, sessionVars>>

\* onSubmit of the concurrent page up to its first await
SubmitConcurrent ==
    /\ variant = "concurrent"
    /\ ~isUploading
    /\ formSchema(variant, form)
    /\ handleSubmit
    /\ isUploading' = TRUE
    /\ uploadProgress' = 0
    /\ payloadSize' = form.files[1].size
    /\ Dispatch(form, form.files[1].size, toasts)
    /\ outcome' = "none"
    /\ UNCHANGED <<variant, storeHeader, zipName, zipEntries, form>>
    /\ UNCHANGED <<authVars, sessionVars>>

\* onSubmit of the folder page up to zip.generateAsync: the zip loop leaves
\* the progress at round(n / n * 100)
SubmitFolder ==
    /\ variant = "folder"
    /\ ~isUploading
    /\ formSchema(variant, form)
    /\ handleSubmit
    /\ isUploading' = TRUE
    /\ uploadProgress' = ProgressOf(Len(form.files), Len(form.files))
    /\ toasts' = Append(toasts, "Processing Files")
    /\ payloadSize' = 0
    /\ zipName' = FolderName(form.files) \o ZIP_SUFFIX
    /\ zipEntries' = ZipLoop(form.files, 1, <<>>)
    /\ pc' = "zip"
    /\ outcome' = "none"
    /\ UNCHANGED <<variant, storeHeader, form, requests>>
    /\ UNCHANGED <<authVars, sessionVars>>

\* generateAsync resolves with a blob of size z
ZipDone ==
    /\ pc = "zip"
    /\ \E z \in ZipSizes :
        /\ payloadSize' = z
        /\ uploadProgress' = 0
        /\ Dispatch(values, z, toasts)
    /\ UNCHANGED <<variant, storeHeader, values, zipName, zipEntries,
                   form, isUploading, uploadId,
                   totalParts, loopIndex, uploadedParts, puts, outcome>>
    /\ UNCHANGED <<runVars, authVars, sessionVars>>

\* mutant: the catch returns without setIsUploading(false)
ZipFail_StillUploading ==
    /\ pc = "zip"
    /\ toasts' = Append(toasts, "Zipping Failed")
    /\ uploadProgress' = 0
    /\ outcome' = "zipFailed"
    /\ pc' = "idle"
    /\ UNCHANGED <<variant, storeHeader, values, zipName, zipEntries, form, requests,
                   flowVars, isUploading>>
    /\ UNCHANGED <<runVars, authVars, sessionVars>>

\* generateAsync rejects
ZipFail ==
    /\ pc = "zip"
    /\ toasts' = Append(toasts, "Zipping Failed")
    /\ isUploading' = FALSE
    /\ uploadProgress' = 0
    /\ outcome' = "zipFailed"
    /\ pc' = "idle"
    /\ UNCHANGED <<variant, storeHeader, values, zipName, zipEntries,
                   form, requests, flowVars>>
    /\ UNCHANGED <<runVars, authVars, sessionVars>>

\* ---------------------------------------------------- handleSmallFileUpload
ArchiveOk ==
    /\ pc = "archive"
    /\ Succeed
    /\ UNCHANGED <<variant, storeHeader, values, zipName, zipEntries,
                   requests, flowVars>>
    /\ UNCHANGED <<runVars, authVars, sessionVars>>

\* mutant: a failed POST /archive is sent once more before giving up
ArchiveFail_Retry ==
    /\ pc = "archive"
    /\ IF Len(requests) < 2
       THEN /\ requests' = Append(requests, ArchiveRequest(values, payloadSize))
            /\ UNCHANGED <<form, pc, isUploading, uploadProgress, toasts,
                           outcome>>
       ELSE Fail /\ UNCHANGED requests
    /\ UNCHANGED <<variant, storeHeader, values, zipName, zipEntries, flowVars>>
    /\ UNCHANGED <<runVars, authVars, sessionVars>>

\* the catch of the small-file path
ArchiveFail ==
    /\ pc = "archive"
    /\ Fail
    /\ UNCHANGED <<variant, storeHeader, values, zipName, zipEntries,
                   requests, flowVars>>
    /\ UNCHANGED <<runVars, authVars, sessionVars>>

\* ---------------------------------------------------- handleLargeFileUpload
\* mutant: the id is read from a field the response does not have
\* (startRes.data.id), so uploadId stays empty
StartUploadOk_IdDropped ==
    /\ pc = "start-upload"
    /\ uploadId' = ""
    /\ totalParts' = TotalParts(payloadSize)
    /\ loopIndex' = 0
    /\ uploadedParts' = <<>>
    /\ puts' = [k \in 1..TotalParts(payloadSize) |-> "none"]
    /\ requests' = Append(requests, PartUrlRequest("", 1))
    /\ pc' = "get-upload-part-url"
    /\ UNCHANGED <<variant, storeHeader, values, zipName, zipEntries,
                   form, isUploading, uploadProgress,
                   toasts, payloadSize, outcome>>
    /\ UNCHANGED <<runVars, authVars, sessionVars>>

\* start-upload answers with an uploadId; the loop's first pass runs up to
\* its request for the URL of part 1
StartUploadOk ==
    /\ pc = "start-upload"
    /\ \E id \in UploadIds :
        /\ uploadId' = id
        /\ totalParts' = TotalParts(payloadSize)
        /\ loopIndex' = 0
        /\ uploadedParts' = <<>>
        /\ puts' = [k \in 1..TotalParts(payloadSize) |-> "none"]
        /\ requests' = Append(requests, PartUrlRequest(id, 1))
        /\ pc' = "get-upload-part-url"
    /\ UNCHANGED <<variant, storeHeader, values, zipName, zipEntries,
                   form, isUploading, uploadProgress,
                   toasts, payloadSize, outcome>>
    /\ UNCHANGED <<runVars, authVars, sessionVars>>

StartUploadFail ==
    /\ pc = "start-upload"
    /\ Fail
    /\ UNCHANGED <<variant, storeHeader, values, zipName, zipEntries,
                   requests, flowVars>>
    /\ UNCHANGED <<runVars, authVars, sessionVars>>

\* Promise.all(partUploadPromises) rejects
AnyPutFailed(p) == \E k \in DOMAIN p : p[k] = "failed"

\* mutant: Promise.race in place of Promise.all
AllPutsOk_FirstOk(p) == \E k \in DOMAIN p : p[k] = "ok"

\* Promise.all(partUploadPromises) fulfils
AllPutsOk(p) == \A k \in DOMAIN p : p[k] = "ok"

\* concurrent page: the URL of part loopIndex + 1 arrives, its PUT is started
\* without being awaited, and the loop goes on to the next part's URL; after
\* the last part the flow awaits Promise.all, which rejects at once when a
\* PUT has failed already
PartUrlOkConcurrent ==
    /\ variant = "concurrent"
    /\ pc = "get-upload-part-url"
    /\ puts' = [puts EXCEPT ![loopIndex + 1] = "inflight"]
    /\ IF loopIndex + 1 < totalParts
       THEN /\ loopIndex' = loopIndex + 1
            /\ requests' = requests \o <<PutRequest(uploadId, loopIndex),
                                        PartUrlRequest(uploadId, loopIndex + 2)>>
            /\ UNCHANGED <<pc, toasts, form, isUploading, uploadProgress, outcome>>
       ELSE /\ loopIndex' = loopIndex + 1
            /\ requests' = Append(requests, PutRequest(uploadId, loopIndex))
            /\ IF AnyPutFailed(puts)
               THEN Fail
               ELSE /\ pc' = "all-parts"
                    /\ UNCHANGED <<toasts, form, isUploading, uploadProgress,
                                   outcome>>
    /\ UNCHANGED <<variant, storeHeader, values, zipName, zipEntries,
                   payloadSize, uploadId, totalParts,
                   uploadedParts>>
    /\ UNCHANGED <<runVars, authVars, sessionVars>>

\* folder page: the URL arrives and the PUT of that part is awaited
PartUrlOkFolder ==
    /\ variant = "folder"
    /\ pc = "get-upload-part-url"
    /\ puts' = [puts EXCEPT ![loopIndex + 1] = "inflight"]
    /\ requests' = Append(requests, PutRequest(uploadId, loopIndex))
    /\ pc' = "put"
    /\ UNCHANGED <<variant, storeHeader, values, zipName, zipEntries,
                   form, isUploading, uploadProgress,
                   toasts, payloadSize, uploadId, totalParts, loopIndex,
                   uploadedParts, outcome>>
    /\ UNCHANGED <<runVars, authVars, sessionVars>>

PartUrlFail ==
    /\ pc = "get-upload-part-url"
    /\ Fail
    /\ UNCHANGED <<variant, storeHeader, values, zipName, zipEntries,
                   requests, flowVars>>
    /\ UNCHANGED <<runVars, authVars, sessionVars>>

\* mutant: partNumber declared once for the whole loop (var), so that every
\* callback reads the value of the pass the loop has reached
CapturedPartNumber_Shared(k) == Min(loopIndex + 1, totalParts)

\* const partNumber = i + 1 is bound anew in each pass of the loop: the
\* callback of the PUT of part k reads k
CapturedPartNumber(k) == k

\* concurrent page: the PUT of part k is answered 2xx; its then-callback runs
\* whatever has become of the flow, and Promise.all resolves with the last one
PutOkConcurrent(k) ==
    /\ variant = "concurrent"
    /\ puts[k] = "inflight"
    /\ puts' = [puts EXCEPT ![k] = "ok"]
    /\ uploadedParts' =
          Append(uploadedParts,
                 [ETag |-> AxiosETag(ResponseETag(storeHeader, k)),
                  PartNumber |-> CapturedPartNumber(k)])
    /\ uploadProgress' = ProgressOf(CapturedPartNumber(k), totalParts)
    /\ IF pc = "all-parts" /\ AllPutsOk(puts')
       THEN /\ requests' =
                 Append(requests, CompleteUploadRequest(uploadId, uploadedParts'))
            /\ pc' = "complete-upload"
       ELSE UNCHANGED <<requests, pc>>
    /\ UNCHANGED <<variant, storeHeader, values, zipName, zipEntries,
                   form, isUploading, toasts, payloadSize,
                   uploadId, totalParts, loopIndex, outcome>>
    /\ UNCHANGED <<runVars, authVars, sessionVars>>

\* mutant: each PUT promise swallows its rejection and never settles, so that
\* Promise.all neither fulfils nor rejects
PutFailConcurrent_NeverSettles(k) ==
    /\ variant = "concurrent"
    /\ puts[k] = "inflight"
    /\ puts' = [puts EXCEPT ![k] = "failed"]
    /\ UNCHANGED <<pc, toasts, form, isUploading, uploadProgress, outcome>>
    /\ UNCHANGED <<variant, storeHeader, values, zipName, zipEntries,
                   requests, payloadSize, uploadId,
                   totalParts, loopIndex, uploadedParts>>
    /\ UNCHANGED <<runVars, authVars, sessionVars>>

\* mutant: the receipt is recorded in .finally instead of .then, so a failed
\* PUT leaves an entry too
PutFailConcurrent_Recorded(k) ==
    /\ variant = "concurrent"
    /\ puts[k] = "inflight"
    /\ puts' = [puts EXCEPT ![k] = "failed"]
    /\ uploadedParts' =
          Append(uploadedParts,
                 [ETag |-> Undefined, PartNumber |-> CapturedPartNumber(k)])
    /\ IF pc = "all-parts"
       THEN Fail
       ELSE UNCHANGED <<pc, toasts, form, isUploading, uploadProgress, outcome>>
    /\ UNCHANGED <<variant, storeHeader, values, zipName, zipEntries,
                   requests, payloadSize, uploadId,
                   totalParts, loopIndex>>
    /\ UNCHANGED <<runVars, authVars, sessionVars>>

\* concurrent page: the PUT of part k fails (network error or non-2xx); the
\* flow notices only at Promise.all
PutFailConcurrent(k) ==
    /\ variant = "concurrent"
    /\ puts[k] = "inflight"
    /\ puts' = [puts EXCEPT ![k] = "failed"]
    /\ IF pc = "all-parts"
       THEN Fail
       ELSE UNCHANGED <<pc, toasts, form, isUploading, uploadProgress, outcome>>
    /\ UNCHANGED <<variant, storeHeader, values, zipName, zipEntries,
                   requests, payloadSize, uploadId,
                   totalParts, loopIndex, uploadedParts>>
    /\ UNCHANGED <<runVars, authVars, sessionVars>>

\* folder page: the awaited PUT is answered 2xx; without a usable ETag the
\* flow throws, otherwise it records the part and moves on
PutOkFolder ==
    /\ variant = "folder"
    /\ pc = "put"
    /\ puts' = [puts EXCEPT ![loopIndex + 1] = "ok"]
    /\ LET etag == FetchETag(ResponseETag(storeHeader, loopIndex + 1))
       IN  IF ~Truthy(etag)
           THEN /\ Fail
                /\ UNCHANGED <<requests, loopIndex, uploadedParts>>
           ELSE /\ uploadedParts' =
                     Append(uploadedParts,
                            [ETag |-> etag, PartNumber |-> loopIndex + 1])
                /\ loopIndex' = loopIndex + 1
                /\ uploadProgress' = ProgressOf(loopIndex + 1, totalParts)
                /\ IF loopIndex + 1 < totalParts
                   THEN /\ requests' =
                             Append(requests,
                                    PartUrlRequest(uploadId, loopIndex + 2))
                        /\ pc' = "get-upload-part-url"
                   ELSE /\ requests' =
                             Append(requests,
                                    CompleteUploadRequest(uploadId, uploadedParts'))
                        /\ pc' = "complete-upload"
                /\ UNCHANGED <<toasts, form, isUploading, outcome>>
    /\ UNCHANGED <<variant, storeHeader, values, zipName, zipEntries,
                   payloadSize, uploadId, totalParts>>
    /\ UNCHANGED <<runVars, authVars, sessionVars>>

\* mutant: the failed part is caught inside the loop and skipped
PutFailFolder_Skips ==
    /\ variant = "folder"
    /\ pc = "put"
    /\ puts' = [puts EXCEPT ![loopIndex + 1] = "failed"]
    /\ loopIndex' = loopIndex + 1
    /\ IF loopIndex + 1 < totalParts
       THEN /\ requests' =
                 Append(requests, PartUrlRequest(uploadId, loopIndex + 2))
            /\ pc' = "get-upload-part-url"
       ELSE /\ requests' =
                 Append(requests,
                        CompleteUploadRequest(uploadId, uploadedParts))
            /\ pc' = "complete-upload"
    /\ UNCHANGED <<variant, storeHeader, values, zipName, zipEntries, form,
                   isUploading, uploadProgress, toasts, outcome,
                   payloadSize, uploadId, totalParts, uploadedParts>>
    /\ UNCHANGED <<runVars, authVars, sessionVars>>

\* folder page: the PUT is answered with a status that is not ok; the flow
\* awaits the text of the answer before it throws
PutFailFolder ==
    /\ variant = "folder"
    /\ pc = "put"
    /\ puts' = [puts EXCEPT ![loopIndex + 1] = "failed"]
    /\ pc' = "error-text"
    /\ UNCHANGED <<variant, storeHeader, values, zipName, zipEntries, form,
                   isUploading, uploadProgress, toasts, outcome, requests,
                   payloadSize, uploadId, totalParts, loopIndex,
                   uploadedParts>>
    /\ UNCHANGED <<runVars, authVars, sessionVars>>

\* folder page: uploadResponse.text() settles; the flow throws the error of
\* the failed part, or the one text() was rejected with
ErrorTextSettled ==
    /\ pc = "error-text"
    /\ Fail
    /\ UNCHANGED <<variant, storeHeader, values, zipName, zipEntries,
                   requests, flowVars>>
    /\ UNCHANGED <<runVars, authVars, sessionVars>>

\* folder page: fetch rejects, no answer has come
PutRejectFolder ==
    /\ variant = "folder"
    /\ pc = "put"
    /\ puts' = [puts EXCEPT ![loopIndex + 1] = "failed"]
    /\ Fail
    /\ UNCHANGED <<variant, storeHeader, values, zipName, zipEntries,
                   requests, payloadSize, uploadId,
                   totalParts, loopIndex, uploadedParts>>
    /\ UNCHANGED <<runVars, authVars, sessionVars>>

CompleteUploadOk ==
    /\ pc = "complete-upload"
    /\ Succeed
    /\ UNCHANGED <<variant, storeHeader, values, zipName, zipEntries,
                   requests, flowVars>>
    /\ UNCHANGED <<runVars, authVars, sessionVars>>

CompleteUploadFail ==
    /\ pc = "complete-upload"
    /\ Fail
    /\ UNCHANGED <<variant, storeHeader, values, zipName, zipEntries,
                   requests, flowVars>>
    /\ UNCHANGED <<runVars, authVars, sessionVars>>

\* ------------------------------------------------------ the file field
\* the file list a later drop or pick brings
DroppedFiles == { <<FileItem(<<"2">>, NoPath, 1)>> }

\* new File([], "") on the pages with one file, an empty FileList on the
\* folder page
ClearedFiles ==
    IF variant = "folder" THEN <<>> ELSE <<FileItem(<<>>, NoPath, 0)>>

\* form.setValue("file" | "files", ...): nothing else of the page changes
SetFiles(fs) ==
    /\ form' = [form EXCEPT !.files = fs]
    /\ UNCHANGED <<variant, storeHeader, values, pc, isUploading,
                   uploadProgress, toasts, requests, flowVars, zipName,
                   zipEntries, outcome>>
    /\ UNCHANGED <<runVars, authVars, sessionVars>>

\* the drop zone takes a drop whether or not an upload is running
handleDrop(fs) ==
    /\ Len(fs) > 0
    /\ SetFiles(fs)

\* the hidden inputs are disabled while an upload is running
handleFileChange(fs) ==
    /\ ~isUploading
    /\ Len(fs) > 0
    /\ SetFiles(fs)

\* the X button, shown while a selection is displayed and never disabled
ClearFiles ==
    /\ form.files # <<>>
    /\ SetFiles(ClearedFiles)

\* what the user types into the tags field
TagInputs == {"finance"}

\* the item of the policy select the user picks
PolicyInputs == {"legal-hold-indefinite"}

\* field.onChange of the tags input, disabled while an upload is running
TagsChange(t) ==
    /\ ~isUploading
    /\ form' = [form EXCEPT !.tags = t]
    /\ UNCHANGED <<variant, storeHeader, values, pc, isUploading,
                   uploadProgress, toasts, requests, flowVars, zipName,
                   zipEntries, outcome>>
    /\ UNCHANGED <<runVars, authVars, sessionVars>>

\* onValueChange of the policy select, disabled while an upload is running
PolicyChange(p) ==
    /\ ~isUploading
    /\ form' = [form EXCEPT !.policy = p]
    /\ UNCHANGED <<variant, storeHeader, values, pc, isUploading,
                   uploadProgress, toasts, requests, flowVars, zipName,
                   zipEntries, outcome>>
    /\ UNCHANGED <<runVars, authVars, sessionVars>>

\* concurrent page: a PUT of an earlier run is answered 2xx; its callback
\* records the receipt in the list of its own run, which nothing reads any
\* more, and sets the progress the page shows
PutOkDetached(d) ==
    /\ d \in detached
    /\ detached' = detached \ {d}
    /\ uploadProgress' = ProgressOf(d.partNumber, d.totalParts)
    /\ UNCHANGED <<variant, storeHeader, form, values, pc, isUploading,
                   toasts, requests, flowVars, zipName, zipEntries, outcome,
                   runs, runBase>>
    /\ UNCHANGED <<authVars, sessionVars>>

\* concurrent page: a PUT of an earlier run fails; nothing awaits it
PutFailDetached(d) ==
    /\ d \in detached
    /\ detached' = detached \ {d}
    /\ UNCHANGED <<variant, storeHeader, form, values, pc, isUploading,
                   uploadProgress, toasts, requests, flowVars, zipName,
                   zipEntries, outcome, runs, runBase>>
    /\ UNCHANGED <<authVars, sessionVars>>

\* a step of form.handleSubmit(onSubmit) or of a callback of the current run
FlowStep ==
    \/ SubmitInvalid
    \/ SubmitBasic
    \/ SubmitConcurrent
    \/ SubmitFolder
    \/ ZipDone
    \/ ZipFail
    \/ ArchiveOk
    \/ ArchiveFail
    \/ StartUploadOk
    \/ StartUploadFail
    \/ PartUrlOkConcurrent
    \/ PartUrlOkFolder
    \/ PartUrlFail
    \/ \E k \in DOMAIN puts : PutOkConcurrent(k)
    \/ \E k \in DOMAIN puts : PutFailConcurrent(k)
    \/ PutOkFolder
    \/ PutFailFolder
    \/ ErrorTextSettled
    \/ PutRejectFolder
    \/ CompleteUploadOk
    \/ CompleteUploadFail

Next ==
    \/ \E fs \in DroppedFiles : handleDrop(fs)
    \/ \E fs \in DroppedFiles : handleFileChange(fs)
    \/ ClearFiles
    \/ \E t \in TagInputs : TagsChange(t)
    \/ \E p \in PolicyInputs : PolicyChange(p)
    \/ FlowStep
    \/ \E d \in detached : PutOkDetached(d)
    \/ \E d \in detached : PutFailDetached(d)

Spec == Init /\ [][Next]_vars

\* ------------------------------------------ authentication and private route
MaxLogouts == 2

\* fetches of one page unanswered at a time
MaxInFlight == 2

Null == "null"

Users == {"alice"}

Layouts == {"inline", "effect"}

\* values the 'user' entry of localStorage may hold when the page loads
StoredUsers == {"absent", "user", "null", "garbage"}

\* navItems: the routes under the (dashboard) group, wrapped by
\* DashboardLayout
Private == {"/dashboard", "/upload", "/search", "/settings"}

Routes == Private \cup {"/", "/login", "/register"}

\* pages with an effect that fetches from the backend when they mount
FetchPages == {"/dashboard", "/search", "/settings"}

\* pages whose fetch answers a 401 with auth.logout()
SessionPages == {"/dashboard", "/search"}

NoFetches == [f \in FetchPages |-> "idle"]

NoStale == [f \in FetchPages |-> 0]

\* JSON.parse(storedUser): the stored user, null, or a SyntaxError
JsonParse(v) ==
    CASE v = "user" -> [ok |-> TRUE, value |-> "alice"]
      [] v = "null" -> [ok |-> TRUE, value |-> Null]
      [] OTHER -> [ok |-> FALSE, value |-> Null]

\* the effect of AuthProvider on mount: what it passes to setUser and what
\* it leaves in localStorage
AuthProviderEffect(stored, u) ==
    LET parsed == JsonParse(stored) IN
    [user |-> IF stored # "absent" /\ parsed.ok THEN parsed.value ELSE u,
     localUser |-> IF stored # "absent" /\ ~parsed.ok THEN "absent" ELSE stored]

\* mutant: the guard on user is missing, so the layout renders whenever
\* loading is over
DashboardLayoutInline_NoGuard(loading, u, r) ==
    IF loading
    THEN [rendered |-> "loading", route |-> r]
    ELSE [rendered |-> "children", route |-> r]

\* DashboardLayout with the redirect in the render: what it returns and
\* where the router stands afterwards
DashboardLayoutInline(loading, u, r) ==
    IF loading
    THEN [rendered |-> "loading", route |-> r]
    ELSE IF ~loading /\ u = Null
         THEN [rendered |-> "nothing", route |-> "/login"]
         ELSE [rendered |-> "children", route |-> r]

\* DashboardLayout with the redirect in a useEffect: the render returns and
\* leaves the router alone
DashboardLayoutEffect(loading, u, r) ==
    [rendered |-> (IF loading THEN "loading"
                   ELSE IF u = Null THEN "nothing" ELSE "children"),
     route |-> r]

\* the callback of that useEffect, with isLoading and user of the render that
\* scheduled it
DashboardLayoutRedirect(loading, u, r) ==
    IF ~loading /\ u = Null THEN "/login" ELSE r

\* the callback of the useEffect of HomePage
HomePageEffect(loading, u, r) ==
    IF loading THEN r
    ELSE IF u # Null THEN "/dashboard" ELSE "/login"

\* a render of the tree with page p mounted: what DashboardLayout returns
\* ("unmounted" on a page outside the group) and where the router stands
Render(p, loading, u, r) ==
    IF p \notin Private
    THEN [rendered |-> "unmounted", route |-> r]
    ELSE IF layout = "inline"
         THEN DashboardLayoutInline(loading, u, r)
         ELSE DashboardLayoutEffect(loading, u, r)

\* effects pending after page p has been mounted in place of page was: the
\* layout is kept from one page of the group to the next
MountEffects(p, was, now) ==
    {e \in {"DashboardLayout"} :
        p \in Private /\ was \notin Private /\ layout = "effect"}
    \cup {e \in {"HomePage"} : p = "/"}
    \cup {e \in {"Page"} : p \in FetchPages /\ now = "children"}

\* effects pending after a render that a change of user or isLoading has
\* caused: those that depend on the context, and those of a page that this
\* render mounts
UpdateEffects(p, before, now) ==
    {e \in {"DashboardLayout"} : p \in Private /\ layout = "effect"}
    \cup {e \in {"HomePage"} : p = "/"}
    \cup {e \in {"Page"} :
            /\ p \in FetchPages
            /\ now = "children"
            /\ (before # "children" \/ p = "/dashboard")}

\* where the router stands after the pending effects es have run
RouteAfter(es, loading, u, r) ==
    LET r1 == IF "DashboardLayout" \in es
              THEN DashboardLayoutRedirect(loading, u, r) ELSE r
    IN  IF "HomePage" \in es THEN HomePageEffect(loading, u, r1) ELSE r1

\* the requests in flight: fetches of the page that is mounted, and those
\* that belong to no mounted page any more
InFlight == [fetches |-> fetches, live |-> live, stale |-> stale]

\* the fetches of page p that are unanswered
Unanswered(p) == live[p] + stale[p]

\* fetchData / handleSearch / the profile fetch as called by the effect of
\* page p: setIsLoading(true) and the request
Started(fl, es, p) ==
    IF "Page" \notin es THEN fl
    ELSE [fl EXCEPT !.fetches[p] = "pending", !.live[p] = @ + 1]

\* page p, rendered as was, is unmounted or replaced by what the layout now
\* returns: its state is dropped, its requests stay in flight
Left(fl, p, was, now) ==
    IF p \in FetchPages /\ was = "children" /\ now # "children"
    THEN [fetches |-> [fl.fetches EXCEPT ![p] = "idle"],
          live |-> [fl.live EXCEPT ![p] = 0],
          stale |-> [fl.stale EXCEPT ![p] = @ + fl.live[p]]]
    ELSE fl

\* the upload page as mounted, with nothing selected
UploadAtRest ==
    /\ variant = "basic"
    /\ storeHeader = "quoted"
    /\ form = FormReset
    /\ values = NoValues
    /\ pc = "idle"
    /\ isUploading = FALSE
    /\ uploadProgress = 0
    /\ toasts = <<>>
    /\ requests = <<>>
    /\ payloadSize = 0
    /\ uploadId = ""
    /\ totalParts = 0
    /\ loopIndex = 0
    /\ uploadedParts = <<>>
    /\ puts = <<>>
    /\ zipName = <<>>
    /\ zipEntries = <<>>
    /\ outcome = "none"
    /\ runs = 0
    /\ runBase = NoRun
    /\ detached = {}

\* the first render after the document is loaded at route r
Loaded(r) ==
    /\ user' = Null
    /\ isLoading' = TRUE
    /\ route' = r
    /\ page' = r
    /\ rendered' = Render(r, TRUE, Null, r).rendered
    /\ effects' = {"AuthProvider"} \cup MountEffects(r, "", "loading")
    /\ logouts' = 0
    /\ fetches' = NoFetches
    /\ live' = NoStale
    /\ stale' = NoStale
    /\ sessionExpired' = FALSE
    /\ calls' = {}
    /\ busy' = FALSE

AuthInit ==
    /\ layout \in Layouts
    /\ localUser \in StoredUsers
    /\ route \in Routes
    /\ page = route
    /\ user = Null
    /\ isLoading = TRUE
    /\ rendered = (IF route \in Private THEN "loading" ELSE "unmounted")
    /\ effects = {"AuthProvider"} \cup MountEffects(route, "", "loading")
    /\ logouts = 0
    /\ fetches = NoFetches
    /\ live = NoStale
    /\ stale = NoStale
    /\ sessionExpired = FALSE
    /\ calls = {}
    /\ busy = FALSE
    /\ UploadAtRest
    /\ SessionAtRest

\* the document is loaded anew at route r: the provider starts over and
\* pending callbacks are gone
Visit(r) ==
    /\ ~isLoading
    /\ Loaded(r)
    /\ UNCHANGED <<layout, localUser, uploadVars, sessionVars>>

\* the pending effects run, children first, each with the values of the
\* render that scheduled it; the provider's effect sets user and isLoading,
\* and the tree is rendered again
RunEffects ==
    /\ effects # {}
    /\ LET r1 == RouteAfter(effects, isLoading, user, route)
           fl == Started(InFlight, effects, page) IN
       IF "AuthProvider" \in effects
       THEN LET set == AuthProviderEffect(localUser, user)
                out == Render(page, FALSE, set.user, r1)
                now == Left(fl, page, rendered, out.rendered)
            IN  /\ fetches' = now.fetches
                /\ live' = now.live
                /\ stale' = now.stale
                /\ user' = set.user
                /\ localUser' = set.localUser
                /\ isLoading' = FALSE
                /\ rendered' = out.rendered
                /\ route' = out.route
                /\ effects' = UpdateEffects(page, rendered, out.rendered)
       ELSE /\ fetches' = fl.fetches
            /\ live' = fl.live
            /\ stale' = fl.stale
            /\ route' = r1
            /\ effects' = {}
            /\ UNCHANGED <<user, localUser, isLoading, rendered>>
    /\ UNCHANGED <<layout, page, logouts, sessionExpired, signVars,
                   uploadVars, sessionVars>>

\* the navigation the router was sent on is committed: the page at the
\* route is mounted, with its own state as declared
Nav ==
    /\ route # page
    /\ effects = {}
    /\ route \in FetchPages => Unanswered(route) < MaxInFlight
    /\ page' = route
    /\ LET out == Render(route, isLoading, user, route)
           now == Left(InFlight, page, rendered, "unmounted") IN
          /\ rendered' = out.rendered
          /\ route' = out.route
          /\ effects' = MountEffects(route, page, out.rendered)
          /\ fetches' = now.fetches
          /\ live' = now.live
          /\ stale' = now.stale
    /\ busy' = FALSE
    /\ UNCHANGED <<layout, user, isLoading, localUser, logouts,
                   sessionExpired, calls, uploadVars, sessionVars>>

\* onSubmit of some page has awaited POST c and is resumed with the answer;
\* the page that made the call may be gone by then, and effects of the last
\* commit may still be pending
Resumed(c) ==
    /\ c \in calls
    /\ calls' = calls \ {c}

\* setIsLoading(false) of the page at route p: a page that is no longer
\* mounted has no state to set
Settled(p) == IF page = p THEN FALSE ELSE busy

\* the Log In button, disabled while isLoading: onSubmit up to its await;
\* the form is valid as mounted, so the click may come before the effects of
\* the first render have run
LoginSubmit ==
    /\ page = "/login"
    /\ ~busy
    /\ busy' = TRUE
    /\ calls' = calls \cup {"login"}
    /\ UNCHANGED <<layout, user, isLoading, localUser, route, page, rendered,
                   effects, logouts, fetches, live, stale,
                   sessionExpired,
                   uploadVars, sessionVars>>

\* login(newUser), called by onSubmit of the login page when POST
\* /auth/login has succeeded; onSubmit leaves its isLoading set. setUser,
\* setItem and push come first; the change of user makes React run the
\* pending effects and render again: the provider's effect, if it has not
\* run yet, reads the entry that login has just stored
login(newUser) ==
    /\ Resumed("login")
    /\ localUser' = "user"
    /\ LET first == "AuthProvider" \in effects
           set == IF first THEN AuthProviderEffect("user", newUser)
                           ELSE [user |-> newUser, localUser |-> "user"]
           loading == IF first THEN FALSE ELSE isLoading
           r1 == RouteAfter(effects, isLoading, user, "/dashboard")
           out == Render(page, loading, set.user, r1)
           now == Left(Started(InFlight, effects, page), page, rendered,
                       out.rendered) IN
          /\ user' = set.user
          /\ isLoading' = loading
          /\ rendered' = out.rendered
          /\ route' = out.route
          /\ effects' = UpdateEffects(page, rendered, out.rendered)
          /\ fetches' = now.fetches
          /\ live' = now.live
          /\ stale' = now.stale
    /\ UNCHANGED <<layout, page, logouts, sessionExpired, busy,
                   uploadVars, sessionVars>>

\* POST /auth/login fails: the catch block of onSubmit
LoginFail ==
    /\ Resumed("login")
    /\ busy' = Settled("/login")
    /\ UNCHANGED <<layout, user, isLoading, localUser, route, page, rendered,
                   effects, logouts, fetches, live, stale,
                   sessionExpired,
                   uploadVars, sessionVars>>

\* the Create Account button, disabled while isLoading: onSubmit up to its
\* await
RegisterSubmit ==
    /\ page = "/register"
    /\ ~busy
    /\ busy' = TRUE
    /\ calls' = calls \cup {"register"}
    /\ UNCHANGED <<layout, user, isLoading, localUser, route, page, rendered,
                   effects, logouts, fetches, live, stale,
                   sessionExpired,
                   uploadVars, sessionVars>>

\* onSubmit of RegisterPage when POST /auth/register has succeeded: the
\* router is sent to /login from whatever page is mounted by then
RegisterOk ==
    /\ Resumed("register")
    /\ route' = "/login"
    /\ busy' = Settled("/register")
    /\ UNCHANGED <<layout, user, isLoading, localUser, page, rendered,
                   effects, logouts, fetches, live, stale,
                   sessionExpired,
                   uploadVars, sessionVars>>

\* POST /auth/register fails
RegisterFail ==
    /\ Resumed("register")
    /\ busy' = Settled("/register")
    /\ UNCHANGED <<layout, user, isLoading, localUser, route, page, rendered,
                   effects, logouts, fetches, live, stale,
                   sessionExpired,
                   uploadVars, sessionVars>>

\* the links on display: those of the sidebar, and 'Log in' on the register
\* page
Links ==
    IF page \in Private /\ rendered = "children" THEN Private
    ELSE IF page = "/register" THEN {"/login"} ELSE {}

\* a link is followed: the router is sent to its href, whatever effects are
\* pending
Navigate(r) ==
    /\ r \in Links /\ r # route
    /\ route' = r
    /\ UNCHANGED <<layout, user, isLoading, localUser, page, rendered,
                   effects, logouts, fetches, live, stale,
                   sessionExpired, signVars,
                   uploadVars, sessionVars>>

\* logout() up to its await, called from the header
LogoutClick ==
    /\ rendered = "children"
    /\ logouts < MaxLogouts
    /\ logouts' = logouts + 1
    /\ UNCHANGED <<layout, user, isLoading, localUser, route, page, rendered,
                   effects, fetches, live, stale, sessionExpired, signVars,
                   uploadVars, sessionVars>>

\* the finally block of logout(): setUser(null), removeItem, push; a change
\* of user makes React run the pending effects and render again. logout() is
\* only in reach of what is rendered after the provider's own effect
ClearSession ==
    /\ "AuthProvider" \notin effects
    /\ user' = Null
    /\ localUser' = "absent"
    /\ IF user # Null
       THEN LET r1 == RouteAfter(effects, isLoading, user, "/login")
                out == Render(page, isLoading, Null, r1)
                now == Left(Started(InFlight, effects, page), page,
                            rendered, out.rendered)
            IN  /\ fetches' = now.fetches
                /\ live' = now.live
                /\ stale' = now.stale
                /\ rendered' = out.rendered
                /\ route' = out.route
                /\ effects' = UpdateEffects(page, rendered, out.rendered)
       ELSE /\ route' = "/login"
            /\ UNCHANGED <<fetches, live, stale, rendered, effects>>

\* POST /auth/logout succeeds
LogoutOk ==
    /\ logouts > 0
    /\ logouts' = logouts - 1
    /\ ClearSession
    /\ UNCHANGED <<layout, isLoading, page, sessionExpired, signVars,
                   uploadVars, sessionVars>>

\* mutant: the cleanup follows the await inside the try, so a failed call
\* skips it
LogoutFail_NoFinally ==
    /\ logouts > 0
    /\ logouts' = logouts - 1
    /\ UNCHANGED <<user, localUser, route, rendered, effects, fetches, live,
                   stale>>
    /\ UNCHANGED <<layout, isLoading, page, sessionExpired, signVars,
                   uploadVars, sessionVars>>

\* POST /auth/logout fails: the error is logged and the finally block runs
LogoutFail ==
    /\ logouts > 0
    /\ logouts' = logouts - 1
    /\ ClearSession
    /\ UNCHANGED <<layout, isLoading, page, sessionExpired, signVars,
                   uploadVars, sessionVars>>

\* the Search button, disabled while isLoading: handleSearch up to its
\* await; the effect of the page may still be waiting to call handleSearch
\* as well
handleSearch ==
    /\ page = "/search"
    /\ rendered = "children"
    /\ fetches["/search"] # "pending"
    /\ Unanswered("/search") + Cardinality(effects \cap {"Page"}) < MaxInFlight
    /\ fetches' = [fetches EXCEPT !["/search"] = "pending"]
    /\ live' = [live EXCEPT !["/search"] = @ + 1]
    /\ UNCHANGED <<layout, user, isLoading, localUser, route, page, rendered,
                   effects, logouts, stale, sessionExpired, signVars,
                   uploadVars, sessionVars>>

\* a fetch of page f is answered: one of the page that is mounted, which
\* shows the answer and sets its isLoading to false, or one that belongs to
\* no mounted page
Answered(f, late, status) ==
    IF late
    THEN /\ stale[f] > 0
         /\ stale' = [stale EXCEPT ![f] = @ - 1]
         /\ UNCHANGED <<fetches, live>>
    ELSE /\ live[f] > 0
         /\ live' = [live EXCEPT ![f] = @ - 1]
         /\ fetches' = [fetches EXCEPT ![f] = status]
         /\ UNCHANGED stale

FetchOk(f, late) ==
    /\ Answered(f, late, "ok")
    /\ UNCHANGED <<layout, user, isLoading, localUser, route, page, rendered,
                   effects, logouts, sessionExpired, signVars, uploadVars,
                   sessionVars>>

\* the fetch is answered 401: toast, then auth.logout() up to its await
FetchUnauthorized(f, late) ==
    /\ f \in SessionPages
    /\ logouts < MaxLogouts
    /\ Answered(f, late, "unauthorized")
    /\ sessionExpired' = TRUE
    /\ logouts' = logouts + 1
    /\ UNCHANGED <<layout, user, isLoading, localUser, route, page, rendered,
                   effects, signVars, uploadVars, sessionVars>>

\* the fetch fails otherwise (on the settings page: fails at all): a toast
\* other than 'Session Expired'
FetchError(f, late) ==
    /\ Answered(f, late, "error")
    /\ UNCHANGED <<layout, user, isLoading, localUser, route, page, rendered,
                   effects, logouts, sessionExpired, signVars, uploadVars,
                   sessionVars>>

AuthNext ==
    \/ \E r \in Routes : Visit(r)
    \/ RunEffects
    \/ Nav
    \/ LoginSubmit
    \/ \E u \in Users : login(u)
    \/ LoginFail
    \/ RegisterSubmit
    \/ RegisterOk
    \/ RegisterFail
    \/ \E r \in Routes : Navigate(r)
    \/ LogoutClick
    \/ LogoutOk
    \/ LogoutFail
    \/ handleSearch
    \/ \E f \in FetchPages, late \in BOOLEAN : FetchOk(f, late)
    \/ \E f \in FetchPages, late \in BOOLEAN : FetchUnauthorized(f, late)
    \/ \E f \in FetchPages, late \in BOOLEAN : FetchError(f, late)

AuthSpec == AuthInit /\ [][AuthNext]_vars

\* --------------------------------------------------- upload session manager
MaxSessionParts == 3

MaxAborts == 2

\* a session that is neither committed nor aborted
Live(s) == s.state \in {"Open", "PartsInFlight"}

\* mutant: Abort releases the parts whatever the state of the session
AbortOf_AnyState(s) ==
    [s EXCEPT !.state = "Aborted", !.parts = {}, !.aborts = @ + 1]

\* Abort(session): releases the store-side resources of a session that is
\* not committed; on an aborted or committed session it does nothing
AbortOf(s) ==
    IF Live(s)
    THEN [s EXCEPT !.state = "Aborted", !.parts = {}, !.aborts = @ + 1]
    ELSE [s EXCEPT !.aborts = @ + 1]

\* Abort never fails
AbortResult(s) == "ok"

SessionInit ==
    /\ SessionAtRest
    /\ UploadAtRest
    /\ AuthAtRest

\* OpenSession(name, contentType)
OpenSession(id) ==
    /\ session[id].state = "None"
    /\ session' = [session EXCEPT ![id].state = "Open"]
    /\ result' = "ok"
    /\ UNCHANGED <<uploadVars, authVars>>

\* IssuePartCapability and TransferPart for part k
TransferPart(id, k) ==
    /\ Live(session[id])
    /\ k \notin session[id].parts
    /\ session' = [session EXCEPT ![id].state = "PartsInFlight",
                                  ![id].parts = @ \cup {k}]
    /\ result' = "ok"
    /\ UNCHANGED <<uploadVars, authVars>>

\* Complete(session, partRecords): commits when the parts are exactly 1..N,
\* otherwise fails with a ReconciliationError and the session is aborted
Complete(id) ==
    /\ Live(session[id])
    /\ IF session[id].parts = 1..MaxSessionParts
       THEN /\ session' = [session EXCEPT ![id].state = "Committed"]
            /\ result' = "ok"
       ELSE /\ session' = [session EXCEPT ![id].state = "Aborted",
                                          ![id].parts = {}]
            /\ result' = "ReconciliationError"
    /\ UNCHANGED <<uploadVars, authVars>>

Abort(id) ==
    /\ session[id].state # "None"
    /\ session[id].aborts < MaxAborts
    /\ session' = [session EXCEPT ![id] = AbortOf(@)]
    /\ result' = AbortResult(session[id])
    /\ UNCHANGED <<uploadVars, authVars>>

SessionNext ==
    \/ \E id \in SessionIds : OpenSession(id)
    \/ \E id \in SessionIds, k \in 1..MaxSessionParts : TransferPart(id, k)
    \/ \E id \in SessionIds : Complete(id)
    \/ \E id \in SessionIds : Abort(id)

SessionSpec == SessionInit /\ [][SessionNext]_vars

\* ------------------------------------------------------------------- types
TypeOK ==
    /\ variant \in Variants
    /\ storeHeader \in HeaderModes
    /\ pc \in {"idle", "zip", "archive", "start-upload", "get-upload-part-url",
               "put", "error-text", "all-parts", "complete-upload"}
    /\ isUploading \in BOOLEAN
    /\ uploadProgress \in 0..100
    /\ outcome \in {"none", "rejected", "zipFailed", "success", "failed"}
    /\ totalParts \in 0..MaxParts
    /\ loopIndex \in 0..totalParts
    /\ Len(values.files) <= MaxFiles /\ Len(form.files) <= MaxFiles
    /\ runs \in 0..MaxRuns
    /\ runBase.requests \in 0..Len(requests)
    /\ runBase.toasts \in 0..Len(toasts)
    /\ \A d \in detached : d.run < runs /\ d.partNumber \in 1..d.totalParts
    /\ route \in Routes /\ page \in Routes
    /\ rendered \in {"unmounted", "loading", "nothing", "children"}
    /\ effects \subseteq {"AuthProvider", "DashboardLayout", "HomePage", "Page"}
    /\ logouts \in 0..MaxLogouts
    /\ \A f \in FetchPages :
          /\ live[f] \in 0..MaxInFlight /\ stale[f] \in 0..MaxInFlight
          /\ Unanswered(f) <= MaxInFlight
          /\ fetches[f] = "pending" => live[f] > 0
          /\ f # page => live[f] = 0
    /\ sessionExpired \in BOOLEAN /\ busy \in BOOLEAN
    /\ calls \subseteq {"login", "register"}
    /\ busy => page \in {"/login", "/register"}
    /\ "login" \in calls => (page = "/login" /\ busy)

\* ------------------------------------------------- vocabulary of the claims
\* the requests of the current run, by their place in the log
RunRequests == (runBase.requests + 1)..Len(requests)

\* the place of the run's first request
First == runBase.requests + 1

RequestsTo(ep) == {n \in RunRequests : requests[n].ep = ep}

\* this step is no submit
SameRun == runs' = runs

RequestsFor(ep, k) == {n \in RequestsTo(ep) : requests[n].partNumber = k}

\* the toasts of the current run with the given title
Shown(title) ==
    {n \in (runBase.toasts + 1)..Len(toasts) : toasts[n] = title}

PartNumbersOf(parts) == {parts[j].PartNumber : j \in 1..Len(parts)}

\* n = ceil(size / MULTIPART_CHUNK_SIZE), said without the code's arithmetic
IsPartCount(n, size) ==
    /\ n * MULTIPART_CHUNK_SIZE >= size
    /\ (n - 1) * MULTIPART_CHUNK_SIZE < size

\* total size of a selection
RECURSIVE SumSizes(_)
SumSizes(fs) == IF fs = <<>> THEN 0 ELSE fs[1].size + SumSizes(Tail(fs))

\* C1: complete-upload is issued only after all N = ceil(size / CHUNK_SIZE)
\* part transfers of the flow have succeeded and returned a receipt.
C1_CompleteOnlyAfterAllReceipts ==
    \A n \in RequestsTo("complete-upload") :
        \A k \in 1..MaxParts :
            IsPartCount(k, requests[n].fileSize) =>
                \A j \in 1..k :
                    /\ j \in DOMAIN puts
                    /\ puts[j] = "ok"
                    /\ Truthy(ResponseETag(storeHeader, j))

\* C2: whenever complete-upload is issued, its parts list holds exactly the
\* part numbers 1..N, N = ceil(fileSize / CHUNK_SIZE), each once, whatever the
\* order in which the transfers finished.
C2_PartsAreExactlyOneToN ==
    \A n \in RequestsTo("complete-upload") :
        LET r == requests[n] IN
            /\ IsPartCount(Len(r.parts), r.fileSize)
            /\ PartNumbersOf(r.parts) = 1..Len(r.parts)

\* C2 witness: a complete-upload whose parts finished out of order
C2_Witness ==
    \E n \in RequestsTo("complete-upload") :
        /\ requests[n].parts[1].PartNumber # 1
        /\ Len(requests[n].parts) >= MinParts

\* C3: a flow that opened a session and then failed has called Abort on it.
C3_FailedFlowAborts ==
    (outcome = "failed" /\ uploadId # "") =>
        RequestsTo("abort-upload") # {}

\* C4: a part whose transfer failed is tried again with a fresh capability
\* before the upload is failed.
C4_FailedPartIsRetried ==
    \A k \in DOMAIN puts :
        (outcome = "failed" /\ puts[k] = "failed") =>
            Cardinality(RequestsFor("get-upload-part-url", k)) >= 2

\* C5: a payload of size 0 < S <= SMALL_FILE_LIMIT goes to POST /archive and
\* opens no session; a payload of size S > SMALL_FILE_LIMIT goes to the
\* multipart path with ceil(S / MULTIPART_CHUNK_SIZE) parts.
C5_StrategySelection ==
    RunRequests # {} =>
        /\ payloadSize > 0
        /\ payloadSize <= 25 * 1024 * 1024 =>
              /\ requests[First].ep = "archive"
              /\ Cardinality(RunRequests) = 1
        /\ payloadSize > 25 * 1024 * 1024 =>
              /\ requests[First].ep = "start-upload"
              /\ RequestsTo("archive") = {}
              /\ uploadId # "" => IsPartCount(totalParts, payloadSize)
              /\ \A n \in RequestsTo("complete-upload") :
                    \A k \in 1..totalParts :
                        Cardinality(RequestsFor("PUT", k)) = 1

\* C5 witness: the first size above the limit has gone through the multipart
\* path with six parts
C5_Witness ==
    /\ payloadSize = 25 * 1024 * 1024 + 1
    /\ outcome = "success"
    /\ totalParts = 6
    /\ RequestsTo("complete-upload") # {}

\* C6: part i covers [(i-1) * CHUNK, min(i * CHUNK, S)); every part but the
\* last has length CHUNK, the last between 1 and CHUNK, and at commit the
\* parts are disjoint and cover [0, S) exactly.
C6_PartGeometry ==
    /\ \A n \in RequestsTo("PUT") :
          LET r == requests[n]
              i == r.partNumber
          IN  /\ r.start = (i - 1) * MULTIPART_CHUNK_SIZE
              /\ r.end = Min(i * MULTIPART_CHUNK_SIZE, payloadSize)
              /\ r.end - r.start >= 1
              /\ r.end - r.start <= MULTIPART_CHUNK_SIZE
              /\ r.end < payloadSize => r.end - r.start = MULTIPART_CHUNK_SIZE
    /\ \A n \in RequestsTo("complete-upload") :
          /\ \A x \in 0..(MaxParts + 1) :
                x * MULTIPART_CHUNK_SIZE < payloadSize =>
                    \E m \in RequestsTo("PUT") :
                        requests[m].start = x * MULTIPART_CHUNK_SIZE
          /\ \E m \in RequestsTo("PUT") : requests[m].end = payloadSize
          /\ \A m1, m2 \in RequestsTo("PUT") :
                m1 # m2 =>
                    \/ requests[m1].end <= requests[m2].start
                    \/ requests[m2].end <= requests[m1].start

\* C6 witness: a committed upload whose last part is shorter than a chunk
C6_Witness ==
    /\ RequestsTo("complete-upload") # {}
    /\ \E m \in RequestsTo("PUT") :
          /\ requests[m].end = payloadSize
          /\ requests[m].end - requests[m].start < MULTIPART_CHUNK_SIZE

\* C7: no non-empty payload is refused because of its size; a file above
\* 25 MiB is uploaded rather than refused by form validation.
C7_NoSizeRejection ==
    outcome = "rejected" => SumSizes(values.files) = 0

\* C8: a selection whose files all have size 0, or an empty selection, is
\* rejected before any network call.
C8_EmptyPayloadRejected ==
    SumSizes(values.files) = 0 => RunRequests = {}

\* C9: every part record submitted to complete-upload carries a non-empty
\* receipt token.
C9_NonEmptyReceipts ==
    \A n \in RequestsTo("complete-upload") :
        \A j \in 1..Len(requests[n].parts) :
            Truthy(requests[n].parts[j].ETag)

\* a network step of the flow has failed: the handler's catch has run, or a
\* PUT of the concurrent page has been rejected
FailureSeen ==
    outcome = "failed" \/ \E k \in DOMAIN puts : puts[k] = "failed"

\* within a run
NoRequestAfterFailure == (FailureSeen /\ SameRun) => requests' = requests

\* C10: once a network step of the flow has failed, the flow issues no
\* further request, never reports success, and ends with exactly one
\* 'Upload Failed' notification.
C10_FailureIsTerminal ==
    /\ [][NoRequestAfterFailure]_vars
    /\ [](FailureSeen =>
            /\ Shown("Upload Successful") = {}
            /\ pc = "idle" => Cardinality(Shown("Upload Failed")) = 1)

\* C11: a payload of size 0 < S <= threshold makes exactly one transfer call,
\* one POST /archive carrying file, tags and policy, and no start-upload,
\* part-URL, PUT or complete-upload call; the flow is either waiting for that
\* call or has ended in success or failure, with no session state in between.
C11_SingleShotOneCall ==
    (RunRequests # {} /\ payloadSize <= 25 * 1024 * 1024) =>
        /\ Cardinality(RequestsTo("archive")) = 1
        /\ \A n \in RunRequests :
              /\ requests[n].ep = "archive"
              /\ requests[n].fileSize = payloadSize
              /\ requests[n].tags = values.tags
              /\ requests[n].policy = values.policy
        /\ uploadId = "" /\ uploadedParts = <<>> /\ puts = <<>>
        /\ \/ pc = "archive" /\ outcome = "none" /\ isUploading
           \/ pc = "idle" /\ outcome \in {"success", "failed"} /\ ~isUploading

\* C11 witness: a payload of exactly the threshold has failed on its single
\* POST /archive
C11_Witness ==
    /\ payloadSize = 25 * 1024 * 1024
    /\ outcome = "failed"
    /\ Cardinality(RunRequests) = 1
    /\ requests[First].ep = "archive"

\* C12: the number of part PUTs in flight stays within a parallelism limit
\* that does not grow with the part count N: the N transfers of a multipart
\* upload (N >= 6) are never all in flight at once.
C12_BoundedParallelism ==
    totalParts > 1 => Cardinality(InFlightPuts) < totalParts

\* C13: every recorded entry pairs the receipt the store returned for part k
\* with PartNumber = k, whatever the order in which the transfers completed.
C13_ReceiptsKeyedByPart ==
    \A j \in 1..Len(uploadedParts) :
        LET e == uploadedParts[j] IN
            /\ e.PartNumber \in DOMAIN puts
            /\ puts[e.PartNumber] = "ok"
            /\ storeHeader = "quoted" =>
                  /\ e.ETag.present
                  /\ StripQuotes(e.ETag.value) = <<PartChar[e.PartNumber]>>
            /\ \A i \in 1..Len(uploadedParts) :
                  i # j => uploadedParts[i].PartNumber # e.PartNumber

\* C13 witness: two receipts recorded in the reverse of the part order
C13_Witness ==
    /\ storeHeader = "quoted"
    /\ Len(uploadedParts) >= 2
    /\ uploadedParts[1].PartNumber > uploadedParts[2].PartNumber

\* C14: the parts list supplied to complete-upload is in ascending order of
\* part number.
C14_OrderedAtCommit ==
    \A n \in RequestsTo("complete-upload") :
        \A i, j \in 1..Len(requests[n].parts) :
            i < j =>
                requests[n].parts[i].PartNumber < requests[n].parts[j].PartNumber

\* the zip loop has run over the submitted selection
ZipBuilt == zipName # <<>>

\* every item has a relative path and all of them start with the same segment
SharesRoot(fs) ==
    \A n \in 1..Len(fs) :
        /\ fs[n].rel # <<>>
        /\ FirstSegment(fs[n].rel) = FirstSegment(fs[1].rel)

\* C15: the archive is named after the first path segment only if every
\* input item shares that top-level segment; otherwise it gets the default
\* name ('a/1.txt' with 'b/2.txt' gives 'archive.zip').
C15_RootNameNeedsCommonRoot ==
    ZipBuilt =>
        zipName = (IF SharesRoot(values.files)
                   THEN FirstSegment(values.files[1].rel)
                   ELSE <<"archive">>) \o <<".zip">>

\* C16: the archive lists one entry per input item, in input order, each
\* under its relative path (or its name when it has none); no item's content
\* is replaced by another's.
C16_OneEntryPerItem ==
    ZipBuilt =>
        /\ Len(zipEntries) = Len(values.files)
        /\ \A n \in 1..Len(zipEntries) :
              /\ zipEntries[n].item = n
              /\ zipEntries[n].path =
                    (IF values.files[n].rel # <<>> THEN values.files[n].rel
                     ELSE values.files[n].name)

\* C17: a packaging failure (generateAsync throws, or no item is supplied)
\* makes no network call, is reported once, is not retried, and leaves the
\* page idle with isUploading = false and progress = 0.
C17_PackagingFailureIsLocal ==
    /\ outcome = "zipFailed" =>
          /\ RunRequests = {}
          /\ pc = "idle" /\ ~isUploading /\ uploadProgress = 0
          /\ Cardinality(Shown("Zipping Failed")) = 1
          /\ Cardinality(Shown("Processing Files")) = 1
          /\ Shown("Upload Successful") = {}
    /\ (variant = "folder" /\ values.files = <<>>) =>
          /\ outcome \in {"none", "rejected"}
          /\ RunRequests = {} /\ Len(toasts) = runBase.toasts
          /\ pc = "idle" /\ ~isUploading /\ uploadProgress = 0

\* C17 witness: generateAsync has thrown
C17_Witness == outcome = "zipFailed" /\ zipEntries # <<>>

Terminal == {"success", "failed", "zipFailed"}

EndToasts ==
    Shown("Upload Successful") \cup Shown("Upload Failed")
        \cup Shown("Zipping Failed")

\* the step that ends a run leaves the page idle with one closing toast
EndsIdle ==
    (outcome = "none" /\ outcome' \in Terminal) =>
        /\ pc' = "idle" /\ ~isUploading' /\ uploadProgress' = 0
        /\ Cardinality(EndToasts') = 1

\* an ended run stays ended until the next submit: no second outcome, no
\* further toast
StaysEnded ==
    (outcome \in Terminal /\ SameRun) =>
        /\ outcome' = outcome
        /\ toasts' = toasts
        /\ ~isUploading'

\* a run stops only by reaching an outcome
EndsWithOutcome ==
    (isUploading /\ ~isUploading') => (outcome = "none" /\ outcome' \in Terminal)

\* the user changes the selection: nothing but the form's files changes
SelectionEdited ==
    /\ form'.tags = form.tags /\ form'.policy = form.policy
    /\ UNCHANGED <<values, pc, isUploading, uploadProgress, toasts, requests,
                   flowVars, zipName, zipEntries, outcome, runVars>>

\* a PUT that an earlier run has left in flight is answered: nothing of the
\* current run changes
StragglerAnswered ==
    /\ detached' # detached
    /\ UNCHANGED <<form, values, pc, isUploading, toasts, requests, flowVars,
                   zipName, zipEntries, outcome, runs, runBase>>

\* how far a run is from its end: the stage it is in, then the part
\* transfers still to request (two steps each) or to be answered (one step)
Stage ==
    CASE pc = "zip" -> 3
      [] pc = "start-upload" -> 2
      [] pc = "idle" -> 0
      [] OTHER -> 1

PartSteps ==
    2 * Cardinality({k \in DOMAIN puts : puts[k] = "none"})
        + Cardinality({k \in DOMAIN puts : puts[k] = "inflight"})

\* every step of a running flow brings it nearer to its end
RunAdvances ==
    isUploading =>
        \/ Stage' < Stage
        \/ Stage' = Stage /\ PartSteps' < PartSteps
        \/ SelectionEdited
        \/ StragglerAnswered

\* C18: if every request eventually returns or fails, each onSubmit run ends
\* in exactly one of success and failure, never both and never neither, and
\* at that point the page is idle with isUploading = false and progress = 0.
\* Termination is stated on finite runs: a running flow always has a pending
\* answer that lets it take a step, every step brings it nearer to its end,
\* and it stops only by reaching an outcome; a change of the selection in
\* between, or the answer to a PUT of an earlier run, is no step of the flow.
C18_OneTerminalOutcome ==
    /\ [](isUploading => (outcome = "none" /\ ENABLED FlowStep))
    /\ [][RunAdvances]_vars
    /\ [][EndsWithOutcome]_vars
    /\ [][EndsIdle]_vars
    /\ [][StaysEnded]_vars

\* C18 witness: a multipart flow has ended in success
C18_Witness ==
    /\ outcome = "success"
    /\ RequestsTo("complete-upload") # {}
    /\ ~isUploading /\ uploadProgress = 0

\* p = Math.round(k / n * 100), said without the code's arithmetic
IsRoundedPercent(p, k, n) ==
    /\ 2 * n * p <= 200 * k + n
    /\ 200 * k + n < 2 * n * (p + 1)

\* C19: while a multipart flow runs, the displayed percentage after a part
\* completion is round(k / N * 100), k the number of parts completed so far.
C19_ProgressIsFold ==
    (pc \in {"get-upload-part-url", "put", "all-parts", "complete-upload"}
        /\ Len(uploadedParts) >= 1) =>
            IsRoundedPercent(uploadProgress, Len(uploadedParts), totalParts)

\* a request is issued by a submit or by a step of the run under way
OwnRequestsOnly ==
    requests' # requests => (isUploading \/ (~SameRun /\ isUploading'))

\* the answer to a PUT of an earlier run leaves the session, the part list
\* and the requests of the current run as they are
StragglerKeepsOut ==
    detached' # detached /\ SameRun =>
        UNCHANGED <<uploadId, uploadedParts, puts, requests, pc, outcome>>

\* C20: at most one upload flow is active: while isUploading is true no
\* submit can start, a running flow keeps isUploading true, all requests of
\* a run belong to that one flow and to its one session, and what an earlier
\* run has left in flight touches neither the session nor the part list of
\* the current one.
C20_SingleOwner ==
    /\ [](/\ isUploading =>
                ~ENABLED (SubmitBasic \/ SubmitConcurrent \/ SubmitFolder)
          /\ pc # "idle" => isUploading
          /\ Cardinality(RequestsTo("archive") \cup RequestsTo("start-upload"))
                <= 1
          /\ \A n \in RunRequests :
                requests[n].ep \in
                        {"get-upload-part-url", "PUT", "complete-upload"}
                    => requests[n].uploadId = uploadId /\ uploadId # "")
    /\ [][OwnRequestsOnly]_vars
    /\ [][StragglerKeepsOut]_vars

\* C20 witness: a second multipart flow is under way with parts in flight,
\* none answered; the PUT the first flow left behind has been answered
C20_Witness ==
    /\ isUploading
    /\ uploadId # ""
    /\ Cardinality(InFlightPuts) >= 2
    /\ runs = 2 /\ detached = {}
    /\ uploadProgress = ProgressOf(1, MinParts)
    /\ uploadedParts = <<>>

\* a step of a run leaves the part list as it is or adds one entry at its
\* end
AppendsOnly ==
    \/ ~SameRun
    \/ uploadedParts' = uploadedParts
    \/ /\ Len(uploadedParts') = Len(uploadedParts) + 1
       /\ SubSeq(uploadedParts', 1, Len(uploadedParts)) = uploadedParts

\* C21: the part list of a multipart flow holds at most one entry per part
\* number, an entry is added only after that part's PUT succeeded, and an
\* entry once added is never changed or removed.
C21_AppendOnlySlots ==
    /\ [](\A i, j \in 1..Len(uploadedParts) :
            /\ i # j => uploadedParts[i].PartNumber # uploadedParts[j].PartNumber
            /\ uploadedParts[i].PartNumber \in DOMAIN puts
            /\ puts[uploadedParts[i].PartNumber] = "ok")
    /\ [][AppendsOnly]_vars

\* C21 witness: a part failed after two others had been recorded
C21_Witness ==
    /\ Len(uploadedParts) >= 2
    /\ \E k \in DOMAIN puts : puts[k] = "failed"

PutRequests == RequestsTo("PUT")

\* C22: the URL obtained for (uploadId, k) is used for exactly one PUT, whose
\* body is the byte range of part k of the file; it is never used for
\* another part, another session or a second write.
C22_CapabilityScoping ==
    \A n \in PutRequests :
        LET r == requests[n] IN
            /\ r.url.uploadId = uploadId /\ uploadId # ""
            /\ \E m \in First..(n - 1) :
                  /\ requests[m].ep = "get-upload-part-url"
                  /\ requests[m].uploadId = r.url.uploadId
                  /\ requests[m].partNumber = r.url.partNumber
            /\ r.start = (r.url.partNumber - 1) * (5 * 1024 * 1024)
            /\ r.end = Min(r.url.partNumber * (5 * 1024 * 1024), payloadSize)
            /\ r.start < r.end
            /\ \A m \in PutRequests : m # n => requests[m].url # r.url

\* C22 witness: the last, shorter part has been put to its own URL
C22_Witness ==
    \E n \in PutRequests :
        /\ requests[n].url.partNumber = totalParts
        /\ requests[n].end - requests[n].start < 5 * 1024 * 1024

\* total length of the bodies of the PUTs of the run among the first n
\* requests
RECURSIVE PutBytes(_)
PutBytes(n) ==
    IF n <= runBase.requests THEN 0
    ELSE PutBytes(n - 1) +
         (IF requests[n].ep = "PUT" THEN requests[n].end - requests[n].start
          ELSE 0)

\* C23: the fileSize reported in complete-upload is the size of the file
\* handed to the upload (the packaged archive) and equals the sum of the
\* lengths of the parts transferred in the session, all of them answered.
C23_SizeFidelity ==
    \A n \in RequestsTo("complete-upload") :
        /\ requests[n].fileSize = payloadSize
        /\ requests[n].fileSize = PutBytes(n)
        /\ Cardinality(PutRequests) = Len(requests[n].parts)
        /\ \A m \in PutRequests : puts[requests[m].partNumber] = "ok"

\* C23 witness: complete-upload has been issued for a file whose last part
\* is one byte long
C23_Witness ==
    /\ RequestsTo("complete-upload") # {}
    /\ payloadSize = 25 * 1024 * 1024 + 1

\* an Abort call on a session that an earlier Abort has aborted, or that is
\* committed, leaves every session as it is and reports no error
RepeatedAbortIsNoOp ==
    \A id \in SessionIds :
        (session'[id].aborts = session[id].aborts + 1
            /\ session[id].state \in {"Aborted", "Committed"}) =>
                /\ session'[id].state = session[id].state
                /\ session'[id].parts = session[id].parts
                /\ \A o \in SessionIds \ {id} : session'[o] = session[o]
                /\ result' = "ok"

\* C24: calling Abort twice on a session leaves the same observable state
\* as calling it once (the session stays Aborted, no error is raised), and
\* aborting a committed session changes nothing.
C24_AbortIdempotent ==
    /\ [][RepeatedAbortIsNoOp]_vars
    /\ [](\A id \in SessionIds : session[id].aborts >= 1 =>
            /\ session[id].state \in {"Aborted", "Committed"}
            /\ session[id].state = "Aborted" => session[id].parts = {})

\* C24 witness: Abort has been called twice on one session, which is
\* aborted, and on a committed session
C24_Witness ==
    /\ session["s1"].aborts = 2
    /\ session["s1"].state = "Aborted"
    /\ session["s2"].aborts >= 1
    /\ session["s2"].state = "Committed"

\* after the concurrent flow has failed, no step before the next submit
\* changes the progress or the part list
StaleQuiet ==
    (variant = "concurrent" /\ outcome = "failed" /\ SameRun) =>
        /\ uploadProgress' = uploadProgress
        /\ uploadedParts' = uploadedParts

\* C25: on the concurrent page, once the flow has reported failure and
\* onSubmit has reset isUploading and uploadProgress, no part transfer still
\* in flight changes the progress or the part list: the progress stays 0.
C25_NoEffectsAfterEnd ==
    /\ []((variant = "concurrent" /\ outcome = "failed") =>
            (~isUploading /\ uploadProgress = 0))
    /\ [][StaleQuiet]_vars

\* on the folder page no request follows a failed step
FolderStopsAtFailure ==
    (variant = "folder" /\ FailureSeen /\ SameRun) => requests' = requests

\* C26: on the folder page the URL of part k + 1 is requested only after the
\* PUT of part k has succeeded and its receipt has been recorded, so parts
\* are requested, put and recorded in the order 1..N; after the first
\* failing step no further part is requested and no complete-upload is sent.
C26_SequentialParts ==
    /\ [](variant = "folder" =>
            /\ Cardinality(InFlightPuts) <= 1
            /\ \A j \in 1..Len(uploadedParts) : uploadedParts[j].PartNumber = j
            /\ \A n \in RequestsTo("get-upload-part-url") :
                  \A j \in 1..(requests[n].partNumber - 1) :
                      /\ puts[j] = "ok"
                      /\ j <= Len(uploadedParts)
                      /\ \E m \in First..(n - 1) :
                            /\ requests[m].ep = "PUT"
                            /\ requests[m].partNumber = j
            /\ \A n \in PutRequests :
                  requests[n - 1].ep = "get-upload-part-url"
                      /\ requests[n - 1].partNumber = requests[n].partNumber
            /\ RequestsTo("complete-upload") # {} =>
                  Len(uploadedParts) = totalParts
            /\ (\E k \in DOMAIN puts : puts[k] = "failed") =>
                  RequestsTo("complete-upload") = {})
    /\ [][FolderStopsAtFailure]_vars

\* C26 witness: the store has answered the PUT of part 3 with a failure after
\* parts 1 and 2 were recorded; the run is still going, reading the answer's
\* text
C26_Witness ==
    /\ variant = "folder"
    /\ isUploading /\ pc = "error-text" /\ outcome = "none"
    /\ Len(uploadedParts) = 2
    /\ puts[3] = "failed"

\* C27: every get-upload-part-url request and the complete-upload request
\* carry the uploadId that start-upload returned to this flow and the
\* filename sent to start-upload; none is sent before start-upload has
\* returned, nor with an empty uploadId.
C27_SessionBinding ==
    \A n \in RunRequests :
        requests[n].ep \in {"get-upload-part-url", "complete-upload"} =>
            /\ requests[n].uploadId # ""
            /\ requests[n].uploadId \in UploadIds
            /\ requests[n].uploadId = uploadId
            /\ requests[First].ep = "start-upload"
            /\ requests[n].filename = requests[First].filename
            /\ requests[n].filename # <<>>
            /\ Cardinality(RequestsTo("start-upload")) = 1

\* C27 witness: the folder page has sent complete-upload for a zip named
\* after the selected folder
C27_Witness ==
    /\ variant = "folder"
    /\ RequestsTo("complete-upload") # {}
    /\ requests[First].filename = <<"a", ".zip">>

\* the run ends in this step
RunEnds(how) == outcome = "none" /\ outcome' \in how

\* the user changes a field of the form: the selection at any time, tags
\* and policy while no upload is running (their inputs are disabled then);
\* an edit leaves the run and its logs alone
FormEdited ==
    \/ SelectionEdited
    \/ /\ ~isUploading
       /\ form'.files = form.files
       /\ UNCHANGED <<values, pc, isUploading, uploadProgress, toasts,
                      requests, flowVars, zipName, zipEntries, outcome,
                      runVars>>

\* the form changes only by the user's hand or in the step that ends a run
\* in success
FormKept ==
    form' # form => (RunEnds({"success"}) \/ FormEdited)

\* the step that ends a run in success leaves the form at its reset values
SuccessClears ==
    RunEnds({"success"}) =>
        form' = [files |-> <<>>, tags |-> "", policy |-> "standard-7"]

\* the step that ends a run in failure leaves the form as it finds it
FailureKeeps ==
    RunEnds({"failed", "zipFailed"}) => form' = form

\* C28: files, tags and policy of the form are cleared (policy back to
\* 'standard-7') only after a successful upload; a failing upload leaves
\* them unchanged.
C28_FormStateOnOutcome ==
    /\ [][FormKept]_vars
    /\ [][SuccessClears]_vars
    /\ [][FailureKeeps]_vars

\* C28 witness: after a run that succeeded and cleared the form the user has
\* filled it in again; the multipart upload of the second run has failed and
\* the form still holds the submitted selection, tags and policy
C28_Witness ==
    /\ outcome = "failed"
    /\ uploadId # ""
    /\ form = values
    /\ form.files # <<>> /\ form.tags = "finance"
    /\ form.policy = "legal-hold-indefinite"
    /\ runs = 2

\* a logout() call has run to its end
LogoutCompletes ==
    logouts > 0 /\ logouts' = logouts - 1 /\ isLoading' = isLoading

LogoutClears ==
    LogoutCompletes =>
        (user' = Null /\ localUser' = "absent" /\ route' = "/login")

\* a fetch of the dashboard or search page that is mounted is answered 401
SessionExpires ==
    \E f \in DOMAIN fetches :
        live'[f] = live[f] - 1 /\ fetches'[f] = "unauthorized"

\* the toast of a 401 comes up, be it for a fetch of a page since unmounted
ExpiryShown == ~sessionExpired /\ sessionExpired'

ExpiryLogsOut ==
    /\ SessionExpires =>
          (logouts' = logouts + 1 /\ sessionExpired')
    /\ ExpiryShown => logouts' = logouts + 1

\* C29: when logout() has completed, whether POST /auth/logout succeeded or
\* failed, user is null, the 'user' entry of localStorage is gone and the
\* router has been sent to /login; a 401 answer to the dashboard or search
\* fetch calls logout(), which then completes in the same way.
C29_LogoutClearsSession ==
    /\ [][LogoutClears]_vars
    /\ [][ExpiryLogsOut]_vars
    /\ [](logouts > 0 => ENABLED (LogoutOk \/ LogoutFail))

\* C29 witness: the session was cleared by a logout that a 401 started
C29_Witness ==
    /\ sessionExpired
    /\ logouts = 0
    /\ user = Null /\ localUser = "absent" /\ route = "/login"

\* the layout is mounted, loading is over and there is no user
Unauthenticated == page \in Private /\ ~isLoading /\ user = Null

\* C30 as stated: the layout shows its children only when isLoading is false
\* and user is not null; in every state in which isLoading is false and user
\* is null it shows nothing and the router has been sent to /login.
C30_PrivateRouteGuard ==
    /\ rendered = "children" => (~isLoading /\ user # Null)
    /\ Unauthenticated => (rendered = "nothing" /\ route = "/login")

\* C30 amended: the layout shows its children only when isLoading is false
\* and user is not null; when isLoading is false and user is null it shows
\* nothing, and the router is sent to /login by that render (part_001) or by
\* the layout's effect, which is pending until it has done so (part_002).
C30_GuardRedirectsByEffect ==
    /\ rendered = "children" => (page \in Private /\ ~isLoading /\ user # Null)
    /\ Unauthenticated =>
          /\ rendered = "nothing"
          /\ route = "/login" \/ (layout = "effect" /\ "DashboardLayout" \in effects)

\* C30 witness: a private route was opened without a stored user, the layout
\* has shown nothing and its effect has sent the router to /login
C30_Witness ==
    /\ layout = "effect"
    /\ Unauthenticated
    /\ rendered = "nothing"
    /\ effects = {}
    /\ route = "/login"
    /\ logouts = 0 /\ ~sessionExpired

====
